---- MODULE Spec2Model ----
(***************************************************************************)
(* The glyph viewer of src/index.tsx: a font's glyphs are built as meshes  *)
(* in glyphGroup and arranged on one of seven surfaces.                    *)
(*                                                                         *)
(* Units.  Lengths are in thousandths (so epsilon = 0.001 is 1), the       *)
(* spacing slider in tenths (1.0 is 10), times in whole seconds, the group *)
(* rotation about y in twentieths of a radian (delta * 0.05 is delta).     *)
(*                                                                         *)
(* Math.cos, Math.sin, Math.acos and Object3D.lookAt are left              *)
(* uninterpreted: a point on a curved surface is the surface's name with   *)
(* the exact values the code feeds into the formula, and an orientation is *)
(* the triple lookAt reads (the object's position, the target, the         *)
(* parent's rotation).  Everything rational (the grid, the helix height,   *)
(* the radii, the hue) is computed.                                        *)
(***************************************************************************)
EXTENDS Integers, Sequences, FiniteSets, TLC

VARIABLES
    children,        \* glyphGroup.children: the meshes, in order
    groupRotation,   \* glyphGroup.rotation.y
    shape,           \* shapeSelectElement.value
    spacing,         \* spacingSliderElement.value
    p,               \* pSliderElement.value
    q,               \* qSliderElement.value
    knotControls,    \* knotControlsElement.style.display
    elapsedTime,     \* clock.elapsedTime
    cameraPosition,  \* camera.position
    calls            \* the calls made by the handler that ran last

vars == <<children, groupRotation, shape, spacing, p, q, knotControls,
          elapsedTime, cameraPosition, calls>>

(* Bounds of the model. *)
MaxGlyphs == 2
MaxTime == 1
MaxCount == 5

(* The seconds between two frames. *)
Deltas == {0, 1}

Shapes == {"circle", "grid", "sphere", "helix", "mobius", "klein", "torus-klein-knot"}
Spacings == {10, 15}
KnotPs == {2, 3}
KnotQs == {3, 5}

Max(a, b) == IF a >= b THEN a ELSE b

Call(fn, arg) == [fn |-> fn, arg |-> arg]

(* A point: the surface it lies on and the values that determine it. *)
Vector3(f, a) == [f |-> f, a |-> a]

scenePosition == Vector3("xyz", <<0, 0, 0>>)

CameraStart == Vector3("xyz", <<0, 50000, 600000>>)

(* Where FlyControls can have taken the camera. *)
CameraPositions == {CameraStart, Vector3("xyz", <<0, 50000, 400000>>)}

(* Object3D.lookAt: the quaternion is computed from the object's world     *)
(* position, the target and the parent's world rotation.                   *)
lookAt(position, target, parentRotation) ==
    [look |-> TRUE, from |-> position, to |-> target, parent |-> parentRotation]

(* rotation.set(0, 0, 0), and the rotation of a new mesh. *)
Identity == [look |-> FALSE, from |-> scenePosition, to |-> scenePosition, parent |-> 0]

(* color: 0x00ffdd *)
BaseColor == [hsl |-> FALSE, v |-> <<65501>>]

(* color.setHSL(hue, 0.8, 0.6), the hue as a fraction num/den. *)
setHSL(num, den) == [hsl |-> TRUE, v |-> <<num, den, 8, 6>>]

(* new THREE.Mesh(new TextGeometry(char, {font}), material): the glyph is  *)
(* the char-th renderable glyph of a font that has `font` of them.         *)
Mesh(char, font) ==
    [char |-> char, font |-> font, position |-> scenePosition,
     orient |-> Identity, color |-> BaseColor]

isAnimated(s) == s = "mobius" \/ s = "klein" \/ s = "torus-klein-knot"

isStatic(s) == s = "circle" \/ s = "helix" \/ s = "sphere" \/ s = "grid"

(***************************************************************************)
(* The static shapes, lines 183-229.                                       *)
(***************************************************************************)

(* Math.max(200, count * 0.6) * spacing *)
radius(count, sp) == Max(20000, 60 * count) * sp

(* 40 * spacing *)
itemSize(sp) == 4000 * sp

(* cols computed as Math.floor(Math.sqrt(count)) + 1. *)
colsFloorPlusOne(count) == (CHOOSE c \in 0..count : c * c <= count /\ (c + 1) * (c + 1) > count) + 1

(* Math.ceil(Math.sqrt(count)) *)
cols(count) == CHOOSE c \in 0..count : c * c >= count /\ (c = 0 \/ (c - 1) * (c - 1) < count)

(* (i % cols - (cols - 1) / 2) * itemSize *)
gridX(i, count, sp) == ((2 * (i % cols(count)) - (cols(count) - 1)) * itemSize(sp)) \div 2

(* (Math.floor(i / cols) - (Math.floor(count / cols) - 1) / 2) * -itemSize *)
gridY(i, count, sp) ==
    ((2 * (i \div cols(count)) - ((count \div cols(count)) - 1)) * (0 - itemSize(sp))) \div 2

(* Math.max(150, count * 0.25) * spacing *)
sphereRadius(count, sp) == Max(15000, 25 * count) * sp

(* 100 * spacing *)
helixRadius(sp) == 10000 * sp

(* 15 * spacing *)
verticalSpacing(sp) == 1500 * sp

(* (i - count/2) * verticalSpacing * 0.2 *)
helixY(i, count, sp) == ((2 * i - count) * verticalSpacing(sp)) \div 10

(* One pass of the forEach of lines 183-229 over one mesh: the rotation is *)
(* reset, then the case of the shape sets the position and looks at its    *)
(* target; rot is the group's rotation when lookAt runs.                   *)
arrangeStatic(object, i, count, shp, sp, rot, cam) ==
    LET reset == [object EXCEPT !.orient = Identity]
        place(pos, target) ==
            [reset EXCEPT !.position = pos, !.orient = lookAt(pos, target, rot)]
    IN  CASE shp = "circle" ->
               place(Vector3("circle", <<radius(count, sp), i, count>>), scenePosition)
          [] shp = "grid" ->
               place(Vector3("xyz", <<gridX(i, count, sp), gridY(i, count, sp), 0>>), cam)
          [] shp = "sphere" ->
               place(Vector3("sphere", <<sphereRadius(count, sp), i, count>>), scenePosition)
          [] shp = "helix" ->
               place(Vector3("helix", <<helixRadius(sp), i, count, helixY(i, count, sp)>>),
                     Vector3("xyz", <<0, helixY(i, count, sp), 0>>))
          [] OTHER -> reset

(***************************************************************************)
(* The animated shapes, lines 232-324.                                     *)
(***************************************************************************)

(* The point of the (p, q) knot at parameter u; u is <<i, count, time,     *)
(* eps>> for ((i / count) + time * 0.05) * 2 pi + eps.                     *)
getTorusKnotPos(u, kp, kq, rad, tubeRadius) ==
    Vector3("torusKnot", <<kp, kq, rad, tubeRadius>> \o u)

(* (u / (Math.PI * 2)) % 1 with u = ((i / count) + time * 0.05) * 2 pi:    *)
(* the fractional part of i/count + time/20, over 20 * count.              *)
hue(i, count, time) == (20 * i + time * count) % (20 * count)

(* One pass of the forEach of lines 251-323 over one mesh. *)
arrangeAnimated(object, i, count, time, shp, sp, kp, kq, rot) ==
    IF shp = "mobius" THEN
        LET pos == Vector3("mobius", <<15000 * sp, i, count, time>>)
        IN  [object EXCEPT !.position = pos, !.orient = lookAt(pos, scenePosition, rot)]
    ELSE IF shp = "klein" THEN
        LET pos == Vector3("klein", <<3000 * sp, i, count, time>>)
        IN  [object EXCEPT !.position = pos, !.orient = lookAt(pos, scenePosition, rot)]
    ELSE IF shp = "torus-klein-knot" THEN
        LET u == <<i, count, time, 0>>
            rad == 10000 * sp
            tubeRadius == 4000 * sp
            P == getTorusKnotPos(u, kp, kq, rad, tubeRadius)
            P_plus_eps == getTorusKnotPos(<<i, count, time, 1>>, kp, kq, rad, tubeRadius)
            N == getTorusKnotPos(u, kp, kq, rad, tubeRadius + 1)
            \* P + helixOffset: the frame comes from P, P_plus_eps and N, the
            \* helix angle from time, i and count, the helix radius is 15
            pos == Vector3("knotHelix", P.a \o <<P_plus_eps.a[8], N.a[4], 15000>>)
        IN  [object EXCEPT !.position = pos,
                           !.orient = lookAt(pos, P, rot),
                           !.color = setHSL(hue(i, count, time), 20 * count)]
    ELSE object

(* updateAnimatedGlyphs(time) on the collection ch. *)
updateAnimatedGlyphs(ch, time, shp, sp, kp, kq, rot) ==
    IF Len(ch) = 0 THEN ch
    ELSE [i \in DOMAIN ch |->
            arrangeAnimated(ch[i], i - 1, Len(ch), time, shp, sp, kp, kq, rot)]

(* updateGlyphArrangement without line 172: the group rotation is kept. *)
updateGlyphArrangementNoReset(ch, rot, shp, sp, kp, kq, cam) ==
    LET display == IF shp = "torus-klein-knot" THEN "flex" ELSE "none"
        self == Call("updateGlyphArrangement", 0)
    IN  IF Len(ch) = 0 THEN
            [display |-> display, rotation |-> rot, children |-> ch, calls |-> <<self>>]
        ELSE IF isAnimated(shp) THEN
            [display |-> display, rotation |-> rot,
             children |-> updateAnimatedGlyphs(ch, 0, shp, sp, kp, kq, rot),
             calls |-> <<self, Call("updateAnimatedGlyphs", 0)>>]
        ELSE
            [display |-> display, rotation |-> rot,
             children |-> [i \in DOMAIN ch |->
                             arrangeStatic(ch[i], i - 1, Len(ch), shp, sp, rot, cam)],
             calls |-> <<self>>]

(* updateGlyphArrangement with line 172 moved above the check of line 170. *)
updateGlyphArrangementResetFirst(ch, rot, shp, sp, kp, kq, cam) ==
    LET display == IF shp = "torus-klein-knot" THEN "flex" ELSE "none"
        self == Call("updateGlyphArrangement", 0)
    IN  IF Len(ch) = 0 THEN
            [display |-> display, rotation |-> 0, children |-> ch, calls |-> <<self>>]
        ELSE IF isAnimated(shp) THEN
            [display |-> display, rotation |-> 0,
             children |-> updateAnimatedGlyphs(ch, 0, shp, sp, kp, kq, 0),
             calls |-> <<self, Call("updateAnimatedGlyphs", 0)>>]
        ELSE
            [display |-> display, rotation |-> 0,
             children |-> [i \in DOMAIN ch |->
                             arrangeStatic(ch[i], i - 1, Len(ch), shp, sp, 0, cam)],
             calls |-> <<self>>]

(* updateGlyphArrangement with line 172 moved below the placement. *)
updateGlyphArrangementResetLast(ch, rot, shp, sp, kp, kq, cam) ==
    LET display == IF shp = "torus-klein-knot" THEN "flex" ELSE "none"
        self == Call("updateGlyphArrangement", 0)
    IN  IF Len(ch) = 0 THEN
            [display |-> display, rotation |-> rot, children |-> ch, calls |-> <<self>>]
        ELSE IF isAnimated(shp) THEN
            [display |-> display, rotation |-> 0,
             children |-> updateAnimatedGlyphs(ch, 0, shp, sp, kp, kq, rot),
             calls |-> <<self, Call("updateAnimatedGlyphs", 0)>>]
        ELSE
            [display |-> display, rotation |-> 0,
             children |-> [i \in DOMAIN ch |->
                             arrangeStatic(ch[i], i - 1, Len(ch), shp, sp, rot, cam)],
             calls |-> <<self>>]

(* updateGlyphArrangement with line 168 moved below the check of line 170: *)
(* the knot controls keep their display when the collection is empty.      *)
updateGlyphArrangementToggleLate(ch, rot, shp, sp, kp, kq, cam) ==
    LET display == IF shp = "torus-klein-knot" THEN "flex" ELSE "none"
        self == Call("updateGlyphArrangement", 0)
    IN  IF Len(ch) = 0 THEN
            [display |-> knotControls, rotation |-> rot, children |-> ch,
             calls |-> <<self>>]
        ELSE IF isAnimated(shp) THEN
            [display |-> display, rotation |-> 0,
             children |-> updateAnimatedGlyphs(ch, 0, shp, sp, kp, kq, 0),
             calls |-> <<self, Call("updateAnimatedGlyphs", 0)>>]
        ELSE
            [display |-> display, rotation |-> 0,
             children |-> [i \in DOMAIN ch |->
                             arrangeStatic(ch[i], i - 1, Len(ch), shp, sp, 0, cam)],
             calls |-> <<self>>]

(***************************************************************************)
(* updateGlyphArrangement, lines 164-230: what it leaves in the knot       *)
(* controls, the group rotation and the collection, and the calls it makes.*)
(***************************************************************************)
updateGlyphArrangement(ch, rot, shp, sp, kp, kq, cam) ==
    LET display == IF shp = "torus-klein-knot" THEN "flex" ELSE "none"
        self == Call("updateGlyphArrangement", 0)
    IN  IF Len(ch) = 0 THEN
            [display |-> display, rotation |-> rot, children |-> ch, calls |-> <<self>>]
        ELSE IF isAnimated(shp) THEN
            [display |-> display, rotation |-> 0,
             children |-> updateAnimatedGlyphs(ch, 0, shp, sp, kp, kq, 0),
             calls |-> <<self, Call("updateAnimatedGlyphs", 0)>>]
        ELSE
            [display |-> display, rotation |-> 0,
             children |-> [i \in DOMAIN ch |->
                             arrangeStatic(ch[i], i - 1, Len(ch), shp, sp, 0, cam)],
             calls |-> <<self>>]
(***************************************************************************)
(* The handlers.  The status line and the 'Upload a .ttf to begin' mesh    *)
(* are written and never read by the arrangement code; they are left out.  *)
(***************************************************************************)

(* init, lines 26-90, with the values index.html gives the controls left   *)
(* open: any shape, spacing, p and q, the knot controls shown or hidden.   *)
Init ==
    /\ children = <<>>
    /\ groupRotation = 0
    /\ shape \in Shapes
    /\ spacing \in Spacings
    /\ p \in KnotPs
    /\ q \in KnotQs
    /\ knotControls \in {"flex", "none"}
    /\ elapsedTime = 0
    /\ cameraPosition = CameraStart
    /\ calls = <<Call("init", 0)>>

(* renderAllGlyphs, lines 119-162, on a font with n renderable glyphs of   *)
(* which the first k get a mesh: k = n when every mesh is built, k < n     *)
(* when building mesh k + 1 throws, which the catch of line 110 reports.   *)
renderAllGlyphs(n, k) ==
    LET meshes == [j \in 1..k |-> Mesh(j, n)]
        r == updateGlyphArrangement(meshes, groupRotation, shape, spacing, p, q,
                                    cameraPosition)
        self == <<Call("handleFontUpload", 0), Call("renderAllGlyphs", n)>>
    IN  IF n = 0 THEN
            /\ children' = <<>>
            /\ calls' = self
            /\ UNCHANGED <<groupRotation, knotControls>>
        ELSE IF k < n THEN
            /\ children' = meshes
            /\ calls' = self
            /\ UNCHANGED <<groupRotation, knotControls>>
        ELSE
            /\ children' = r.children
            /\ groupRotation' = r.rotation
            /\ knotControls' = r.display
            /\ calls' = self \o r.calls

(* handleFontUpload, lines 92-117, taken when the FileReader calls back:   *)
(* the read fails or gives nothing (lines 101-104, 115) or parsing throws  *)
(* (lines 106-108, 110-113), and nothing but the status line changes; or   *)
(* the font parses and its glyphs are rendered (line 109).                 *)
fontUpload(largest) ==
    /\ \/ /\ calls' = <<Call("handleFontUpload", 0)>>
          /\ UNCHANGED <<children, groupRotation, knotControls>>
       \/ \E n \in 0..largest : \E k \in 0..n : renderAllGlyphs(n, k)
    /\ UNCHANGED <<shape, spacing, p, q, elapsedTime, cameraPosition>>

handleFontUpload == fontUpload(MaxGlyphs)

(* The 'change' listener of the shape select, line 75. *)
shapeChange ==
    \E s \in Shapes \ {shape} :
        LET r == updateGlyphArrangement(children, groupRotation, s, spacing, p, q,
                                        cameraPosition)
        IN  /\ shape' = s
            /\ children' = r.children
            /\ groupRotation' = r.rotation
            /\ knotControls' = r.display
            /\ calls' = <<Call("shape change", 0)>> \o r.calls
            /\ UNCHANGED <<spacing, p, q, elapsedTime, cameraPosition>>

(* The spacing listener without the call of line 79. *)
spacingInputNoArrange ==
    \E v \in Spacings \ {spacing} :
        /\ spacing' = v
        /\ calls' = <<Call("spacing input", 0)>>
        /\ UNCHANGED <<children, groupRotation, shape, p, q, knotControls,
                       elapsedTime, cameraPosition>>

(* The 'input' listener of the spacing slider, lines 76-80. *)
spacingInput ==
    \E v \in Spacings \ {spacing} :
        LET r == updateGlyphArrangement(children, groupRotation, shape, v, p, q,
                                        cameraPosition)
        IN  /\ spacing' = v
            /\ children' = r.children
            /\ groupRotation' = r.rotation
            /\ knotControls' = r.display
            /\ calls' = <<Call("spacing input", 0)>> \o r.calls
            /\ UNCHANGED <<shape, p, q, elapsedTime, cameraPosition>>

(* The 'input' listener of the p slider, line 83. *)
pInput ==
    \E v \in KnotPs \ {p} :
        /\ p' = v
        /\ calls' = <<Call("p input", 0)>>
        /\ UNCHANGED <<children, groupRotation, shape, spacing, q, knotControls,
                       elapsedTime, cameraPosition>>

(* The 'input' listener of the q slider, line 84. *)
qInput ==
    \E v \in KnotQs \ {q} :
        /\ q' = v
        /\ calls' = <<Call("q input", 0)>>
        /\ UNCHANGED <<children, groupRotation, shape, spacing, p, knotControls,
                       elapsedTime, cameraPosition>>

(* animate with the spin of line 347 applied whatever the shape. *)
animateSpinAlways ==
    \E delta \in Deltas : \E cam \in CameraPositions :
        /\ elapsedTime + delta <= MaxTime
        /\ delta = 0 => cam = cameraPosition
        /\ elapsedTime' = elapsedTime + delta
        /\ cameraPosition' = cam
        /\ IF isAnimated(shape) THEN
               /\ children' = updateAnimatedGlyphs(children, elapsedTime + delta, shape,
                                                   spacing, p, q, groupRotation)
               /\ calls' = <<Call("animate", delta),
                             Call("updateAnimatedGlyphs", elapsedTime + delta)>>
           ELSE
               /\ children' = children
               /\ calls' = <<Call("animate", delta)>>
        /\ IF Len(children) > 0 THEN
               groupRotation' = groupRotation + delta
           ELSE
               groupRotation' = groupRotation
        /\ UNCHANGED <<shape, spacing, p, q, knotControls>>

(* animate, lines 333-352: one frame, delta seconds after the last one     *)
(* (the two clock reads of a frame are taken at the same instant);         *)
(* controls.update(delta) may have moved the camera.                       *)
animate ==
    \E delta \in Deltas : \E cam \in CameraPositions :
        /\ elapsedTime + delta <= MaxTime
        /\ delta = 0 => cam = cameraPosition
        /\ elapsedTime' = elapsedTime + delta
        /\ cameraPosition' = cam
        /\ IF isAnimated(shape) THEN
               /\ children' = updateAnimatedGlyphs(children, elapsedTime + delta, shape,
                                                   spacing, p, q, groupRotation)
               /\ calls' = <<Call("animate", delta),
                             Call("updateAnimatedGlyphs", elapsedTime + delta)>>
           ELSE
               /\ children' = children
               /\ calls' = <<Call("animate", delta)>>
        /\ IF isStatic(shape) /\ Len(children) > 0 THEN
               groupRotation' = groupRotation + delta
           ELSE
               groupRotation' = groupRotation
        /\ UNCHANGED <<shape, spacing, p, q, knotControls>>

Next ==
    \/ handleFontUpload
    \/ shapeChange
    \/ spacingInput
    \/ pInput
    \/ qInput
    \/ animate

Spec == Init /\ [][Next]_vars

(* The grid alone, on fonts of up to MaxCount glyphs. *)
GridInit == Init /\ shape = "grid"

GridNext ==
    \/ fontUpload(MaxCount)
    \/ spacingInput
    \/ animate

GridSpec == GridInit /\ [][GridNext]_vars
(***************************************************************************)
(* The claims.                                                             *)
(***************************************************************************)

(* The handler that ran last. *)
handler == calls[1].fn

(* The handler that ran last called updateGlyphArrangement. *)
dispatched == \E j \in DOMAIN calls : calls[j].fn = "updateGlyphArrangement"

(* C1: after every updateGlyphArrangement that places objects, the group   *)
(* rotation is zero and every object was oriented under a zero group       *)
(* rotation, whatever ticks and changes came before.                       *)
RotationResetBeforePlacement ==
    (dispatched /\ children # <<>>) =>
        /\ groupRotation = 0
        /\ \A j \in DOMAIN children :
              children[j].orient.look /\ children[j].orient.parent = 0

(* C1 witness: a static shape was selected and placed on a collection the  *)
(* knot arranger had coloured before.                                      *)
StaticPlacedAfterShapeChange ==
    /\ handler = "shape change"
    /\ isStatic(shape)
    /\ children # <<>>
    /\ \E j \in DOMAIN children : children[j].color.hsl

(* C2: on an empty collection a shape change, a spacing change and a tick  *)
(* leave the collection empty and the group rotation as it was.            *)
EmptyCollectionNoOp ==
    [][(children = <<>> /\ calls'[1].fn \in {"shape change", "spacing input", "animate"})
          => (children' = <<>> /\ groupRotation' = groupRotation)]_vars

(* C2 witness: a tick called updateAnimatedGlyphs on an empty collection   *)
(* whose group carries a rotation.                                         *)
EmptyTickKeepsRotation ==
    /\ children = <<>>
    /\ groupRotation > 0
    /\ Len(calls) = 2
    /\ calls[2].fn = "updateAnimatedGlyphs"

KnotControlsMatch == (knotControls = "flex") <=> (shape = "torus-klein-knot")

(* C3: every updateGlyphArrangement leaves the knot controls shown exactly *)
(* when the shape is torus-klein-knot, and no later step breaks that.      *)
KnotControlsFollowShape ==
    [][(dispatched' => KnotControlsMatch') /\ (KnotControlsMatch => KnotControlsMatch')]_vars

(* C3 witness: the knot was selected with no glyphs and its controls show. *)
KnotSelectedWhileEmpty ==
    /\ handler = "shape change"
    /\ children = <<>>
    /\ shape = "torus-klein-knot"
    /\ knotControls = "flex"

(* The collection as renderAllGlyphs builds it, before any arrangement. *)
freshChildren == [j \in DOMAIN children |-> Mesh(children[j].char, children[j].font)]

(* What the arranger that ran last writes on a freshly built collection    *)
(* under the current configuration, at the time it was called with.        *)
arrangedFresh ==
    IF isAnimated(shape)
    THEN updateAnimatedGlyphs(freshChildren, calls[Len(calls)].arg, shape, spacing, p, q, 0)
    ELSE updateGlyphArrangement(freshChildren, 0, shape, spacing, p, q,
                                cameraPosition).children

(* C4: whenever an arranger has just run on a non-empty collection, each   *)
(* object's position, orientation and color are what the arranger gives    *)
(* for its index, the count, the current configuration and that time on a  *)
(* collection nothing was arranged on before.                              *)
ArrangementIsPureFunction ==
    (/\ children # <<>>
     /\ calls[Len(calls)].fn \in {"updateGlyphArrangement", "updateAnimatedGlyphs"})
    => \A j \in DOMAIN children :
          /\ children[j].position = arrangedFresh[j].position
          /\ children[j].orient = arrangedFresh[j].orient
          /\ children[j].color = arrangedFresh[j].color

(* updateGlyphArrangement run once, and run twice, from the current state. *)
arrangedOnce ==
    updateGlyphArrangement(children, groupRotation, shape, spacing, p, q, cameraPosition)

arrangedTwice ==
    updateGlyphArrangement(arrangedOnce.children, arrangedOnce.rotation, shape, spacing,
                           p, q, cameraPosition)

(* C5: for a static shape and a non-empty collection, a second             *)
(* updateGlyphArrangement under the same configuration leaves every        *)
(* position and orientation and the group rotation as the first left them. *)
StaticArrangerIdempotent ==
    (isStatic(shape) /\ children # <<>>) =>
        /\ arrangedTwice.rotation = arrangedOnce.rotation
        /\ \A j \in DOMAIN children :
              /\ arrangedTwice.children[j].position = arrangedOnce.children[j].position
              /\ arrangedTwice.children[j].orient = arrangedOnce.children[j].orient

(* C5 witness: a static shape on several glyphs whose group has spun, so   *)
(* that the first call has a rotation to reset.                            *)
StaticCollectionSpun ==
    /\ isStatic(shape)
    /\ Len(children) >= 2
    /\ groupRotation > 0
    /\ handler = "animate"

(* C6: the collection is empty or holds one mesh for every renderable      *)
(* glyph of one font.                                                      *)
NeverPartiallyPopulated ==
    \/ children = <<>>
    \/ \A j \in DOMAIN children : children[j].char = j /\ children[j].font = Len(children)

(* The number of calls of updateGlyphArrangement the last handler made. *)
dispatchCount == Cardinality({j \in DOMAIN calls : calls[j].fn = "updateGlyphArrangement"})

(* The animated arranger was called once, with time 0, and its placement   *)
(* for time 0 is what the objects hold.                                    *)
placedAtTimeZero ==
    /\ Cardinality({j \in DOMAIN calls : calls[j].fn = "updateAnimatedGlyphs"}) = 1
    /\ calls[Len(calls)] = Call("updateAnimatedGlyphs", 0)
    /\ \A j \in DOMAIN children :
          children[j].position =
              arrangeAnimated(children[j], j - 1, Len(children), 0, shape, spacing,
                              p, q, 0).position

TickDispatch ==
    [][(calls'[1].fn = "animate" /\ children # <<>>) =>
          IF isAnimated(shape)
          THEN /\ calls' = <<Call("animate", elapsedTime' - elapsedTime),
                             Call("updateAnimatedGlyphs", elapsedTime')>>
               /\ groupRotation' = groupRotation
               /\ \A j \in DOMAIN children :
                     children'[j].position =
                         arrangeAnimated(children[j], j - 1, Len(children), elapsedTime',
                                         shape, spacing, p, q, groupRotation).position
          ELSE /\ calls' = <<Call("animate", elapsedTime' - elapsedTime)>>
               /\ groupRotation' = groupRotation + (elapsedTime' - elapsedTime)
               /\ children' = children]_vars

(* C8 witness: a tick has spun the group of a static shape. *)
StaticTickSpun ==
    /\ calls = <<Call("animate", 1)>>
    /\ isStatic(shape)
    /\ children # <<>>
    /\ groupRotation > 0

(* The c with (c - 1)^2 < count <= c^2, that is ceil(sqrt(count)). *)
ceilSqrt(count) == CHOOSE c \in 1..count : (c - 1) * (c - 1) < count /\ count <= c * c

(* C9: after the grid is arranged, object i of count is at                 *)
(* x = (i mod cols - (cols - 1)/2) * itemSize,                             *)
(* y = -(floor(i/cols) - (floor(count/cols) - 1)/2) * itemSize, z = 0,     *)
(* with itemSize = 40 * spacing and cols = ceil(sqrt(count)); with four    *)
(* glyphs and spacing 1.0, object 0 is at (-20, 20, 0).                    *)
GridPlacement ==
    (shape = "grid" /\ dispatched /\ children # <<>>) =>
        LET count == Len(children)
            c == ceilSqrt(count)
        IN  /\ \A j \in DOMAIN children :
                  /\ children[j].position.f = "xyz"
                  /\ 2 * children[j].position.a[1]
                        = (2 * ((j - 1) % c) - (c - 1)) * (4000 * spacing)
                  /\ 2 * children[j].position.a[2]
                        = 0 - (2 * ((j - 1) \div c) - ((count \div c) - 1)) * (4000 * spacing)
                  /\ children[j].position.a[3] = 0
            /\ (count = 4 /\ spacing = 10) =>
                  children[1].position.a = <<0 - 20000, 20000, 0>>

(* C9 witness: four glyphs on the grid at spacing 1.0. *)
GridOfFour ==
    /\ shape = "grid"
    /\ dispatched
    /\ Len(children) = 4
    /\ spacing = 10
    /\ children[4].position.a = <<20000, 0 - 20000, 0>>

(* C10: an animated shape on a non-empty collection never has a rotated    *)
(* group.                                                                  *)
AnimatedGroupNeverRotated ==
    (isAnimated(shape) /\ children # <<>>) => groupRotation = 0
====
